---- MODULE Spec2Model ----
(***************************************************************************)
(* Shader entry points of the GLES context (contextShader.cpp): the shared *)
(* shading-object namespace, the shader lifecycle, the lazily created      *)
(* shader compiler and the string queries.                                 *)
(*                                                                         *)
(* The context is handled as a record c; every entry point is an operator  *)
(* from a context (and its arguments) to the context after the call, and   *)
(* every action installs the result of one call.  The caller's memory that *)
(* a call writes (params, length, the destination buffer, the returned     *)
(* handle) is part of the record, reset when the next call is entered.     *)
(***************************************************************************)
EXTENDS Integers, Sequences, FiniteSets, TLC

\* ---------------------------------------------------------------- bounds
MaxShaders == 2
MaxPrograms == 1
MaxQueryShaders == 1
MaxCompilers == 2
MaxBuf == 3
MaxCount == 1

\* ------------------------------------------------------------- constants
NULL == 0
GL_NO_ERROR == "GL_NO_ERROR"
GL_INVALID_ENUM == "GL_INVALID_ENUM"
GL_INVALID_VALUE == "GL_INVALID_VALUE"
GL_INVALID_OPERATION == "GL_INVALID_OPERATION"
GL_VERTEX_SHADER == "GL_VERTEX_SHADER"
GL_FRAGMENT_SHADER == "GL_FRAGMENT_SHADER"
GL_COMPILE_STATUS == "GL_COMPILE_STATUS"
GL_DELETE_STATUS == "GL_DELETE_STATUS"
GL_INFO_LOG_LENGTH == "GL_INFO_LOG_LENGTH"
GL_SHADER_SOURCE_LENGTH == "GL_SHADER_SOURCE_LENGTH"
GL_SHADER_TYPE == "GL_SHADER_TYPE"
GL_TRUE == "GL_TRUE"
GL_FALSE == "GL_FALSE"
GL_LOW_FLOAT == "GL_LOW_FLOAT"
GL_MEDIUM_FLOAT == "GL_MEDIUM_FLOAT"
GL_HIGH_FLOAT == "GL_HIGH_FLOAT"
GL_LOW_INT == "GL_LOW_INT"
GL_MEDIUM_INT == "GL_MEDIUM_INT"
GL_HIGH_INT == "GL_HIGH_INT"
SHADER_ID == "SHADER_ID"
SHADER_PROGRAM_ID == "SHADER_PROGRAM_ID"
SHADER_TYPE_VERTEX == "SHADER_TYPE_VERTEX"
SHADER_TYPE_FRAGMENT == "SHADER_TYPE_FRAGMENT"
SHADER_TYPE_INVALID == "SHADER_TYPE_INVALID"

\* A value that may be absent is the empty sequence or the sequence of the one
\* value: a char* is nullptr (NoString) or Some(characters), a location of the
\* caller's memory is Unwritten or Some(value written).
Some(v) == << v >>
NoString == << >>
Unwritten == << >>
\* The terminator byte.
NUL == "NUL"

\* An enumerant that is none of the recognised ones.
GL_OTHER == "GL_NONE"

VARIABLES
    compilerSupport,       \* GL_SHADER_COMPILER, fixed for the context
    mShaderCompiler,       \* the compiler instance, NULL when there is none
    compilerCount,         \* compiler instances constructed so far
    mShadingObjectPool,    \* handle -> [type, arrayIndex]
    mShadingObjectCount,   \* the next handle
    shaderArray,           \* storage index -> Shader
    shaderCounter,         \* the next shader storage index
    shaderProgramArray,    \* storage index -> ShaderProgram
    programCounter,        \* the next program storage index
    purgeList,             \* shaders marked for deletion and still referenced
    mError,                \* the last-error slot
    inDrawState,           \* mWriteFBO->IsInDrawState()
    recorded,              \* the errors the last call recorded, in order
    mem,                   \* the caller's memory the last call was given
    lastCall               \* the last call and its arguments

vars == << compilerSupport, mShaderCompiler, compilerCount, mShadingObjectPool,
           mShadingObjectCount, shaderArray, shaderCounter, shaderProgramArray,
           programCounter, purgeList, mError, inDrawState, recorded, mem, lastCall >>

\* ------------------------------------------------------------ the context
NoMem == [ret |-> Unwritten, params |-> Unwritten, hasLength |-> FALSE, length |-> Unwritten,
          buffer |-> << >>, range |-> Unwritten, precision |-> Unwritten,
          usedCompiler |-> NULL, constructed |-> NULL, freed |-> << >>]

Cur ==
    [compilerSupport |-> compilerSupport, mShaderCompiler |-> mShaderCompiler,
     compilerCount |-> compilerCount, mShadingObjectPool |-> mShadingObjectPool,
     mShadingObjectCount |-> mShadingObjectCount, shaderArray |-> shaderArray,
     shaderCounter |-> shaderCounter, shaderProgramArray |-> shaderProgramArray,
     programCounter |-> programCounter, purgeList |-> purgeList, mError |-> mError,
     inDrawState |-> inDrawState, recorded |-> recorded, mem |-> mem]

\* The context as a call finds it: nothing recorded yet, the caller's memory fresh.
Enter == [Cur EXCEPT !.recorded = << >>, !.mem = NoMem]

Install(c) ==
    /\ compilerSupport' = c.compilerSupport
    /\ mShaderCompiler' = c.mShaderCompiler
    /\ compilerCount' = c.compilerCount
    /\ mShadingObjectPool' = c.mShadingObjectPool
    /\ mShadingObjectCount' = c.mShadingObjectCount
    /\ shaderArray' = c.shaderArray
    /\ shaderCounter' = c.shaderCounter
    /\ shaderProgramArray' = c.shaderProgramArray
    /\ programCounter' = c.programCounter
    /\ purgeList' = c.purgeList
    /\ mError' = c.mError
    /\ inDrawState' = c.inDrawState
    /\ recorded' = c.recorded
    /\ mem' = c.mem

\* A function with one more (or one changed) point, and with one point removed.
Put(f, k, v) == [x \in (DOMAIN f) \cup {k} |-> IF x = k THEN v ELSE f[x]]
Drop(f, k) == [x \in (DOMAIN f) \ {k} |-> f[x]]

Max(a, b) == IF a > b THEN a ELSE b
Min(a, b) == IF a < b THEN a ELSE b

\* ------------------------------------------------- collaborators (context.h)
RecordError(c, error) ==
    [c EXCEPT !.mError = error, !.recorded = Append(@, error)]

IsInDrawState(c) == c.inDrawState
Flush(c) == [c EXCEPT !.inDrawState = FALSE]

\* ------------------------------------------------ ResourceManager, Shader
NewShader ==
    [type |-> SHADER_TYPE_INVALID, source |-> NoString, compiled |-> FALSE,
     infoLog |-> NoString, markForDeletion |-> FALSE, compiler |-> NULL]

AllocateShader(c) ==
    [c EXCEPT !.shaderArray = Put(@, c.shaderCounter, NewShader),
              !.shaderCounter = @ + 1]

DeallocateShader(c, ptr) ==
    [c EXCEPT !.shaderArray = Drop(@, ptr),
              !.mem.freed = Append(@, [shader |-> ptr,
                                      markForDeletion |-> c.shaderArray[ptr].markForDeletion,
                                      attached |-> \E p \in DOMAIN c.shaderProgramArray :
                                                      ptr \in c.shaderProgramArray[p].attached])]

PushShadingObject(c, obj) ==
    [c EXCEPT !.mShadingObjectPool = Put(@, c.mShadingObjectCount, obj),
              !.mShadingObjectCount = @ + 1,
              !.mem.ret = Some(c.mShadingObjectCount)]

EraseShadingObject(c, id) == [c EXCEPT !.mShadingObjectPool = Drop(@, id)]
ShadingObjectExists(c, id) == id \in DOMAIN c.mShadingObjectPool
GetShadingObjectCount(c) == c.mShadingObjectCount
AddToPurgeList(c, ptr) == [c EXCEPT !.purgeList = @ \cup {ptr}]

SetShaderType(c, ptr, type) == [c EXCEPT !.shaderArray[ptr].type = type]
SetShaderCompiler(c, ptr, compiler) == [c EXCEPT !.shaderArray[ptr].compiler = compiler]
SetMarkForDeletion(c, ptr, mark) == [c EXCEPT !.shaderArray[ptr].markForDeletion = mark]
GetMarkForDeletion(c, ptr) == c.shaderArray[ptr].markForDeletion
IsCompiled(c, ptr) == c.shaderArray[ptr].compiled
HasSource(c, ptr) == c.shaderArray[ptr].source # NoString
GetShaderType(c, ptr) == c.shaderArray[ptr].type

\* true iff marked for deletion and no program holds the shader attached
FreeForDeletion(c, ptr) ==
    /\ c.shaderArray[ptr].markForDeletion
    /\ \A p \in DOMAIN c.shaderProgramArray : ptr \notin c.shaderProgramArray[p].attached

\* -------------------------------------------------------- contextShader.cpp
HasShaderCompiler(c) ==
    IF ~c.compilerSupport
    THEN [ok |-> FALSE, ctx |-> RecordError(c, GL_INVALID_OPERATION)]
    ELSE [ok |-> TRUE, ctx |-> c]

\* GetShaderPtr that does not look at the entry's kind.
GetShaderPtr_NoKindCheck(c, shader) ==
    IF shader = 0 \/ shader >= GetShadingObjectCount(c) \/ ~ShadingObjectExists(c, shader)
    THEN [ptr |-> NULL, ctx |-> RecordError(c, GL_INVALID_VALUE)]
    ELSE LET shadId == c.mShadingObjectPool[shader]
         IN  IF shadId.arrayIndex = 0
             THEN [ptr |-> NULL, ctx |-> RecordError(c, GL_INVALID_OPERATION)]
             ELSE [ptr |-> shadId.arrayIndex, ctx |-> c]

\* GetShaderPtr that refuses a shader marked for deletion.
GetShaderPtr_RejectMarked(c, shader) ==
    IF shader = 0 \/ shader >= GetShadingObjectCount(c) \/ ~ShadingObjectExists(c, shader)
    THEN [ptr |-> NULL, ctx |-> RecordError(c, GL_INVALID_VALUE)]
    ELSE LET shadId == c.mShadingObjectPool[shader]
         IN  IF shadId.arrayIndex = 0 \/ shadId.type # SHADER_ID
             THEN [ptr |-> NULL, ctx |-> RecordError(c, GL_INVALID_OPERATION)]
             ELSE IF GetMarkForDeletion(c, shadId.arrayIndex)
                  THEN [ptr |-> NULL, ctx |-> RecordError(c, GL_INVALID_VALUE)]
                  ELSE [ptr |-> shadId.arrayIndex, ctx |-> c]

GetShaderPtr(c, shader) ==
    IF shader = 0 \/ shader >= GetShadingObjectCount(c) \/ ~ShadingObjectExists(c, shader)
    THEN [ptr |-> NULL, ctx |-> RecordError(c, GL_INVALID_VALUE)]
    ELSE LET shadId == c.mShadingObjectPool[shader]
         IN  IF shadId.arrayIndex = 0 \/ shadId.type # SHADER_ID
             THEN [ptr |-> NULL, ctx |-> RecordError(c, GL_INVALID_OPERATION)]
             ELSE [ptr |-> shadId.arrayIndex, ctx |-> c]

\* CreateShader without the SetShaderCompiler call.
CreateShader_NoSetCompiler(c, type) ==
    IF type # GL_VERTEX_SHADER /\ type # GL_FRAGMENT_SHADER
    THEN [RecordError(c, GL_INVALID_ENUM) EXCEPT !.mem.ret = Some(0)]
    ELSE LET res == c.shaderCounter
             c1 == AllocateShader(c)
             c2 == SetShaderType(c1, res, IF type = GL_VERTEX_SHADER
                                          THEN SHADER_TYPE_VERTEX
                                          ELSE SHADER_TYPE_FRAGMENT)
         IN  PushShadingObject(c2, [type |-> SHADER_ID, arrayIndex |-> res])

\* CreateShader without the SetShaderType call.
CreateShader_NoSetType(c, type) ==
    IF type # GL_VERTEX_SHADER /\ type # GL_FRAGMENT_SHADER
    THEN [RecordError(c, GL_INVALID_ENUM) EXCEPT !.mem.ret = Some(0)]
    ELSE LET res == c.shaderCounter
             c1 == AllocateShader(c)
             c3 == SetShaderCompiler(c1, res, c.mShaderCompiler)
         IN  PushShadingObject(c3, [type |-> SHADER_ID, arrayIndex |-> res])

CreateShader(c, type) ==
    IF type # GL_VERTEX_SHADER /\ type # GL_FRAGMENT_SHADER
    THEN [RecordError(c, GL_INVALID_ENUM) EXCEPT !.mem.ret = Some(0)]
    ELSE LET res == c.shaderCounter
             c1 == AllocateShader(c)
             c2 == SetShaderType(c1, res, IF type = GL_VERTEX_SHADER
                                          THEN SHADER_TYPE_VERTEX
                                          ELSE SHADER_TYPE_FRAGMENT)
             c3 == SetShaderCompiler(c2, res, c.mShaderCompiler)
         IN  PushShadingObject(c3, [type |-> SHADER_ID, arrayIndex |-> res])

\* DeleteShader without the test for the zero handle.
DeleteShader_NoZeroCheck(c, shader) ==
    LET r == GetShaderPtr(c, shader)
    IN  IF r.ptr = NULL
        THEN r.ctx
        ELSE LET c1 == SetMarkForDeletion(r.ctx, r.ptr, TRUE)
             IN  IF FreeForDeletion(c1, r.ptr)
                 THEN LET c2 == IF IsInDrawState(c1) THEN Flush(c1) ELSE c1
                      IN  DeallocateShader(EraseShadingObject(c2, shader), r.ptr)
                 ELSE AddToPurgeList(c1, r.ptr)

\* DeleteShader that inverts the mark instead of setting it.
DeleteShader_ToggleMark(c, shader) ==
    IF shader = 0
    THEN c
    ELSE LET r == GetShaderPtr(c, shader)
         IN  IF r.ptr = NULL
             THEN r.ctx
             ELSE LET c1 == SetMarkForDeletion(r.ctx, r.ptr, ~GetMarkForDeletion(r.ctx, r.ptr))
                  IN  IF FreeForDeletion(c1, r.ptr)
                      THEN LET c2 == IF IsInDrawState(c1) THEN Flush(c1) ELSE c1
                           IN  DeallocateShader(EraseShadingObject(c2, shader), r.ptr)
                      ELSE AddToPurgeList(c1, r.ptr)

\* DeleteShader that puts the shader in the purge list on both branches.
DeleteShader_PurgeWhenFreed(c, shader) ==
    IF shader = 0
    THEN c
    ELSE LET r == GetShaderPtr(c, shader)
         IN  IF r.ptr = NULL
             THEN r.ctx
             ELSE LET c1 == SetMarkForDeletion(r.ctx, r.ptr, TRUE)
                  IN  IF FreeForDeletion(c1, r.ptr)
                      THEN LET c2 == IF IsInDrawState(c1) THEN Flush(c1) ELSE c1
                           IN  AddToPurgeList(
                                   DeallocateShader(EraseShadingObject(c2, shader), r.ptr), r.ptr)
                      ELSE AddToPurgeList(c1, r.ptr)

\* DeleteShader without the FreeForDeletion test: every deletion frees at once.
DeleteShader_NoFreeCheck(c, shader) ==
    IF shader = 0
    THEN c
    ELSE LET r == GetShaderPtr(c, shader)
         IN  IF r.ptr = NULL
             THEN r.ctx
             ELSE LET c1 == SetMarkForDeletion(r.ctx, r.ptr, TRUE)
                      c2 == IF IsInDrawState(c1) THEN Flush(c1) ELSE c1
                  IN  DeallocateShader(EraseShadingObject(c2, shader), r.ptr)

\* DeleteShader that forgets to mark the shader before it tests FreeForDeletion.
DeleteShader_NoMark(c, shader) ==
    IF shader = 0
    THEN c
    ELSE LET r == GetShaderPtr(c, shader)
         IN  IF r.ptr = NULL
             THEN r.ctx
             ELSE IF FreeForDeletion(r.ctx, r.ptr)
                  THEN LET c2 == IF IsInDrawState(r.ctx) THEN Flush(r.ctx) ELSE r.ctx
                       IN  DeallocateShader(EraseShadingObject(c2, shader), r.ptr)
                  ELSE AddToPurgeList(r.ctx, r.ptr)

\* DeleteShader that erases the namespace entry on the deferred branch too.
DeleteShader_EraseWhenDeferred(c, shader) ==
    IF shader = 0
    THEN c
    ELSE LET r == GetShaderPtr(c, shader)
         IN  IF r.ptr = NULL
             THEN r.ctx
             ELSE LET c1 == SetMarkForDeletion(r.ctx, r.ptr, TRUE)
                  IN  IF FreeForDeletion(c1, r.ptr)
                      THEN LET c2 == IF IsInDrawState(c1) THEN Flush(c1) ELSE c1
                           IN  DeallocateShader(EraseShadingObject(c2, shader), r.ptr)
                      ELSE AddToPurgeList(EraseShadingObject(c1, shader), r.ptr)

DeleteShader(c, shader) ==
    IF shader = 0
    THEN c
    ELSE LET r == GetShaderPtr(c, shader)
         IN  IF r.ptr = NULL
             THEN r.ctx
             ELSE LET c1 == SetMarkForDeletion(r.ctx, r.ptr, TRUE)
                  IN  IF FreeForDeletion(c1, r.ptr)
                      THEN LET c2 == IF IsInDrawState(c1) THEN Flush(c1) ELSE c1
                           IN  DeallocateShader(EraseShadingObject(c2, shader), r.ptr)
                      ELSE AddToPurgeList(c1, r.ptr)

GetInfoLogLength(c, ptr) ==
    IF c.shaderArray[ptr].infoLog = NoString THEN 0 ELSE Len(c.shaderArray[ptr].infoLog[1]) + 1

GetShaderSourceLength(c, ptr) ==
    IF c.shaderArray[ptr].source = NoString THEN 0 ELSE Len(c.shaderArray[ptr].source[1]) + 1

\* The char array a string getter hands out: the characters and the terminator.
CStr(s) == Append(s, NUL)
GetInfoLog(c, ptr) ==
    IF c.shaderArray[ptr].infoLog = NoString
    THEN NoString
    ELSE Some(CStr(c.shaderArray[ptr].infoLog[1]))
GetShaderSourceStr(c, ptr) ==
    IF c.shaderArray[ptr].source = NoString
    THEN NoString
    ELSE Some(CStr(c.shaderArray[ptr].source[1]))

\* memcpy(dst, src, n) and dst[i] = b on the caller's destination buffer, kept as
\* the function from the offsets written so far to the bytes they hold.
Memcpy(c, src, n) ==
    [c EXCEPT !.mem.buffer = [i \in (DOMAIN c.mem.buffer) \cup (0 .. (n - 1)) |->
                                 IF i < n THEN src[i + 1] ELSE c.mem.buffer[i]]]
StoreByte(c, i, b) == [c EXCEPT !.mem.buffer = Put(c.mem.buffer, i, b)]
StoreLength(c, n) == IF c.mem.hasLength THEN [c EXCEPT !.mem.length = Some(n)] ELSE c
StoreParams(c, v) == [c EXCEPT !.mem.params = Some(v)]

\* GetShaderiv with the bodies of two cases exchanged: GL_COMPILE_STATUS reports
\* the deletion mark and GL_DELETE_STATUS the compile flag.
GetShaderiv_SwappedStatus(c, shader, pname) ==
    LET r == GetShaderPtr(c, shader)
    IN  IF r.ptr = NULL
        THEN r.ctx
        ELSE LET c1 ==
                   CASE pname = GL_COMPILE_STATUS ->
                          StoreParams(r.ctx, IF GetMarkForDeletion(r.ctx, r.ptr) THEN GL_TRUE ELSE GL_FALSE)
                     [] pname = GL_DELETE_STATUS ->
                          StoreParams(r.ctx, IF IsCompiled(r.ctx, r.ptr) THEN GL_TRUE ELSE GL_FALSE)
                     [] pname = GL_INFO_LOG_LENGTH ->
                          StoreParams(r.ctx, GetInfoLogLength(r.ctx, r.ptr))
                     [] pname = GL_SHADER_SOURCE_LENGTH ->
                          StoreParams(r.ctx, GetShaderSourceLength(r.ctx, r.ptr))
                     [] pname = GL_SHADER_TYPE ->
                          StoreParams(r.ctx, IF GetShaderType(r.ctx, r.ptr) = SHADER_TYPE_FRAGMENT
                                             THEN GL_FRAGMENT_SHADER ELSE GL_VERTEX_SHADER)
                     [] OTHER -> RecordError(r.ctx, GL_INVALID_ENUM)
             IN  HasShaderCompiler(c1).ctx

GetShaderiv(c, shader, pname) ==
    LET r == GetShaderPtr(c, shader)
    IN  IF r.ptr = NULL
        THEN r.ctx
        ELSE LET c1 ==
                   CASE pname = GL_COMPILE_STATUS ->
                          StoreParams(r.ctx, IF IsCompiled(r.ctx, r.ptr) THEN GL_TRUE ELSE GL_FALSE)
                     [] pname = GL_DELETE_STATUS ->
                          StoreParams(r.ctx, IF GetMarkForDeletion(r.ctx, r.ptr) THEN GL_TRUE ELSE GL_FALSE)
                     [] pname = GL_INFO_LOG_LENGTH ->
                          StoreParams(r.ctx, GetInfoLogLength(r.ctx, r.ptr))
                     [] pname = GL_SHADER_SOURCE_LENGTH ->
                          StoreParams(r.ctx, GetShaderSourceLength(r.ctx, r.ptr))
                     [] pname = GL_SHADER_TYPE ->
                          StoreParams(r.ctx, IF GetShaderType(r.ctx, r.ptr) = SHADER_TYPE_FRAGMENT
                                             THEN GL_FRAGMENT_SHADER ELSE GL_VERTEX_SHADER)
                     [] OTHER -> RecordError(r.ctx, GL_INVALID_ENUM)
             IN  HasShaderCompiler(c1).ctx

\* The length computation and the copy that GetShaderInfoLog and GetShaderSource share.
\* The length without the room for the terminator.
ReturnedLen_NoTerminatorRoom(bufsize, len) == Max(Min(bufsize, len), 0)

ReturnedLen(bufsize, len) == Max(Min(bufsize, len) - 1, 0)

CopyOut(c, str, bufsize, len) ==
    LET returnedLen == ReturnedLen(bufsize, len)
        c1 == StoreLength(c, returnedLen)
    IN  IF returnedLen # 0
        THEN StoreByte(Memcpy(c1, str, returnedLen), returnedLen, NUL)
        ELSE StoreByte(Memcpy(c1, str, 1), 0, NUL)

GetShaderInfoLog(c, shader, bufsize) ==
    IF bufsize < 0
    THEN RecordError(c, GL_INVALID_VALUE)
    ELSE LET r == GetShaderPtr(c, shader)
         IN  IF r.ptr = NULL
             THEN r.ctx
             ELSE LET log == GetInfoLog(r.ctx, r.ptr)
                  IN  IF log # NoString
                      THEN CopyOut(r.ctx, log[1], bufsize, GetInfoLogLength(r.ctx, r.ptr))
                      ELSE StoreLength(r.ctx, 0)

GetShaderSource(c, shader, bufsize) ==
    IF bufsize < 0
    THEN RecordError(c, GL_INVALID_VALUE)
    ELSE LET r == GetShaderPtr(c, shader)
         IN  IF r.ptr = NULL
             THEN r.ctx
             ELSE LET src == GetShaderSourceStr(r.ctx, r.ptr)
                  IN  IF src = NoString
                      THEN r.ctx
                      ELSE CopyOut(r.ctx, src[1], bufsize, GetShaderSourceLength(r.ctx, r.ptr))

\* floor(log2(abs(max))) of short, int16_t and int32_t, and floor(-log2(epsilon))
\* of float.
ShortRange == 14
Int16Range == 14
Int32Range == 30
FloatPrecision == 23
\* floor(log2(abs(max))) of float is 127 when log2 is evaluated in double and
\* 128 when it is evaluated in float (log2f rounds 128 - 8.6e-8 up to 128): the
\* overloads of abs and log2 that the build selects decide.
FloatRanges == {127, 128}

StoreRange(c, v) == [c EXCEPT !.mem.range = << v, v >>]
StorePrecision(c, v) == [c EXCEPT !.mem.precision = Some(v)]

GetShaderPrecisionFormat(c, shadertype, precisiontype, floatRange) ==
    LET h == HasShaderCompiler(c)
    IN  IF ~h.ok
        THEN h.ctx
        ELSE IF shadertype # GL_VERTEX_SHADER /\ shadertype # GL_FRAGMENT_SHADER
             THEN RecordError(h.ctx, GL_INVALID_ENUM)
             ELSE CASE precisiontype \in {GL_LOW_FLOAT, GL_MEDIUM_FLOAT, GL_HIGH_FLOAT} ->
                         StorePrecision(StoreRange(h.ctx, floatRange), FloatPrecision)
                    [] precisiontype = GL_LOW_INT ->
                         StorePrecision(StoreRange(h.ctx, ShortRange), 0)
                    [] precisiontype = GL_MEDIUM_INT ->
                         StorePrecision(StoreRange(h.ctx, Int16Range), 0)
                    [] precisiontype = GL_HIGH_INT ->
                         StorePrecision(StoreRange(h.ctx, Int32Range), 0)
                    [] OTHER -> RecordError(h.ctx, GL_INVALID_ENUM)

IsShader(c, shader) ==
    [c EXCEPT !.mem.ret = Some(/\ ShadingObjectExists(c, shader)
                               /\ c.mShadingObjectPool[shader].type = SHADER_ID)]

\* Shader::SetShaderSource: the fragments concatenated (a null length array or a
\* negative length reads the fragment to its terminator); the shader is no
\* longer compiled and its former log is gone.
RECURSIVE Concat(_, _, _)
Concat(count, string, length) ==
    IF count = 0
    THEN << >>
    ELSE Concat(count - 1, string, length) \o
         (IF length.null \/ length.at[count] < 0
          THEN string[count]
          ELSE SubSeq(string[count], 1, Min(length.at[count], Len(string[count]))))

SetShaderSource(c, ptr, count, string, length) ==
    [c EXCEPT !.shaderArray[ptr].source = Some(Concat(count, string, length)),
              !.shaderArray[ptr].compiled = FALSE,
              !.shaderArray[ptr].infoLog = NoString]

\* ShaderSource that looks at count only after it has set the source.
ShaderSource_LateCountCheck(c, shader, count, string, length) ==
    LET h == HasShaderCompiler(c)
    IN  IF ~h.ok
        THEN h.ctx
        ELSE LET r == GetShaderPtr(h.ctx, shader)
             IN  IF r.ptr = NULL
                 THEN r.ctx
                 ELSE LET c1 == SetShaderSource(r.ctx, r.ptr, Max(count, 0), string, length)
                      IN  IF count < 0 THEN RecordError(c1, GL_INVALID_VALUE) ELSE c1

ShaderSource(c, shader, count, string, length) ==
    LET h == HasShaderCompiler(c)
    IN  IF ~h.ok
        THEN h.ctx
        ELSE LET r == GetShaderPtr(h.ctx, shader)
             IN  IF r.ptr = NULL
                 THEN r.ctx
                 ELSE IF count < 0
                      THEN RecordError(r.ctx, GL_INVALID_VALUE)
                      ELSE SetShaderSource(r.ctx, r.ptr, count, string, length)

ReleaseShaderCompiler(c) ==
    LET h == HasShaderCompiler(c)
    IN  IF ~h.ok
        THEN h.ctx
        ELSE IF h.ctx.mShaderCompiler # NULL
             THEN [h.ctx EXCEPT !.mShaderCompiler = NULL]
             ELSE h.ctx

\* The loops of CreateShaderCompiler over the shader and the program array.
RebindShaders(c, compiler) ==
    [c EXCEPT !.shaderArray = [i \in DOMAIN @ |-> [@[i] EXCEPT !.compiler = compiler]]]
RebindShaderPrograms(c, compiler) ==
    [c EXCEPT !.shaderProgramArray = [i \in DOMAIN @ |-> [@[i] EXCEPT !.compiler = compiler]]]

\* CreateShaderCompiler without its second loop: the programs keep their reference.
CreateShaderCompiler_ShadersOnly(c) ==
    IF c.mShaderCompiler = NULL
    THEN LET new == c.compilerCount + 1
             c1 == [c EXCEPT !.mShaderCompiler = new, !.compilerCount = new,
                             !.mem.constructed = new]
         IN  RebindShaders(c1, new)
    ELSE c

CreateShaderCompiler(c) ==
    IF c.mShaderCompiler = NULL
    THEN LET new == c.compilerCount + 1
             c1 == [c EXCEPT !.mShaderCompiler = new, !.compilerCount = new,
                             !.mem.constructed = new]
         IN  RebindShaderPrograms(RebindShaders(c1, new), new)
    ELSE c

\* Shader::CompileShader: hands the source to the compiler the shader refers to
\* and keeps its verdict and its log.
ShaderCompile(c, ptr, result) ==
    IF c.shaderArray[ptr].compiler = NULL \/ c.shaderArray[ptr].source = NoString
    THEN c
    ELSE [c EXCEPT !.shaderArray[ptr].compiled = result.success,
                   !.shaderArray[ptr].infoLog = result.infoLog,
                   !.mem.usedCompiler = c.shaderArray[ptr].compiler]

\* CompileShader that makes sure of the compiler before it looks at the handle.
CompileShader_CreateFirst(c, shader, result) ==
    LET h == HasShaderCompiler(c)
    IN  IF ~h.ok
        THEN h.ctx
        ELSE LET c1 == CreateShaderCompiler(h.ctx)
                 r == GetShaderPtr(c1, shader)
             IN  IF r.ptr = NULL \/ ~HasSource(r.ctx, r.ptr)
                 THEN r.ctx
                 ELSE ShaderCompile(r.ctx, r.ptr, result)

\* CompileShader without the CreateShaderCompiler call.
CompileShader_NoCreate(c, shader, result) ==
    LET h == HasShaderCompiler(c)
    IN  IF ~h.ok
        THEN h.ctx
        ELSE LET r == GetShaderPtr(h.ctx, shader)
             IN  IF r.ptr = NULL \/ ~HasSource(r.ctx, r.ptr)
                 THEN r.ctx
                 ELSE ShaderCompile(r.ctx, r.ptr, result)

\* CompileShader that compiles whether or not the shader has a source.
CompileShader_NoSourceCheck(c, shader, result) ==
    LET h == HasShaderCompiler(c)
    IN  IF ~h.ok
        THEN h.ctx
        ELSE LET r == GetShaderPtr(h.ctx, shader)
             IN  IF r.ptr = NULL
                 THEN r.ctx
                 ELSE LET c1 == CreateShaderCompiler(r.ctx)
                      IN  [c1 EXCEPT !.shaderArray[r.ptr].compiled = result.success,
                                     !.shaderArray[r.ptr].infoLog = result.infoLog,
                                     !.mem.usedCompiler = c1.shaderArray[r.ptr].compiler]

CompileShader(c, shader, result) ==
    LET h == HasShaderCompiler(c)
    IN  IF ~h.ok
        THEN h.ctx
        ELSE LET r == GetShaderPtr(h.ctx, shader)
             IN  IF r.ptr = NULL \/ ~HasSource(r.ctx, r.ptr)
                 THEN r.ctx
                 ELSE ShaderCompile(CreateShaderCompiler(r.ctx), r.ptr, result)

\* ------------------------------------------- programs (contextShaderProgram)
NewShaderProgram == [compiler |-> NULL, attached |-> {}]

CreateProgram(c) ==
    LET res == c.programCounter
        c1 == [c EXCEPT !.shaderProgramArray =
                          Put(@, res, [NewShaderProgram EXCEPT !.compiler = c.mShaderCompiler]),
                        !.programCounter = @ + 1]
    IN  PushShadingObject(c1, [type |-> SHADER_PROGRAM_ID, arrayIndex |-> res])

AttachShader(c, program, shader) ==
    [c EXCEPT !.shaderProgramArray[c.mShadingObjectPool[program].arrayIndex].attached =
                  @ \cup {c.mShadingObjectPool[shader].arrayIndex}]

\* The release of a shader's last reference reclaims it when it waits in the
\* purge list.
DetachShader(c, program, shader) ==
    LET ptr == c.mShadingObjectPool[shader].arrayIndex
        c1 == [c EXCEPT !.shaderProgramArray[c.mShadingObjectPool[program].arrayIndex].attached =
                            @ \ {ptr}]
    IN  IF ptr \in c1.purgeList /\ FreeForDeletion(c1, ptr)
        THEN DeallocateShader(EraseShadingObject([c1 EXCEPT !.purgeList = @ \ {ptr}], shader), ptr)
        ELSE c1

\* ------------------------------------------------------------------ state
Init ==
    /\ compilerSupport \in BOOLEAN
    /\ mShaderCompiler = NULL
    /\ compilerCount = 0
    /\ mShadingObjectPool = << >>
    /\ mShadingObjectCount = 1
    /\ shaderArray = << >>
    /\ shaderCounter = 1
    /\ shaderProgramArray = << >>
    /\ programCounter = 1
    /\ purgeList = {}
    /\ mError = GL_NO_ERROR
    /\ inDrawState = FALSE
    /\ recorded = << >>
    /\ mem = NoMem
    /\ lastCall = [op |-> "none"]

\* ----------------------------------------------------------------- calls
\* Every call takes its arguments from small sets: the handles tried are 0, those
\* that can exist with at most `shaders` shaders, and one beyond.
Handles(shaders) == 0 .. (shaders + MaxPrograms + 1)
ShaderTypes == {GL_VERTEX_SHADER, GL_FRAGMENT_SHADER, GL_OTHER}
Pnames == {GL_COMPILE_STATUS, GL_DELETE_STATUS, GL_INFO_LOG_LENGTH,
           GL_SHADER_SOURCE_LENGTH, GL_SHADER_TYPE, GL_OTHER}
Bufsizes == (-1) .. MaxBuf
PrecisionTypes == {GL_LOW_FLOAT, GL_MEDIUM_FLOAT, GL_HIGH_FLOAT,
                   GL_LOW_INT, GL_MEDIUM_INT, GL_HIGH_INT, GL_OTHER}
Fragments == {<< "a", "b" >>}
FragmentLengths == {-1, 1}
\* What the compiler can answer for a source: success, or a failure with a log.
CompileResults ==
    {[success |-> TRUE, infoLog |-> NoString],
     [success |-> FALSE, infoLog |-> Some(<< "e" >>)]}

IsShaderHandle(h) ==
    h \in DOMAIN mShadingObjectPool /\ mShadingObjectPool[h].type = SHADER_ID
IsProgramHandle(h) ==
    h \in DOMAIN mShadingObjectPool /\ mShadingObjectPool[h].type = SHADER_PROGRAM_ID

DoCreateShader(types, shaders) ==
    \E type \in types :
        /\ shaderCounter <= shaders
        /\ Install(CreateShader(Enter, type))
        /\ lastCall' = [op |-> "CreateShader", type |-> type]

DoDeleteShader(shaders) ==
    \E shader \in Handles(shaders) :
        /\ Install(DeleteShader(Enter, shader))
        /\ lastCall' = [op |-> "DeleteShader", shader |-> shader]

DoCompileShader(shaders) ==
    \E shader \in Handles(shaders), result \in CompileResults :
        /\ mShaderCompiler # NULL \/ compilerCount < MaxCompilers
        /\ Install(CompileShader(Enter, shader, result))
        /\ lastCall' = [op |-> "CompileShader", shader |-> shader]

DoShaderSource(shaders, counts, lengths) ==
    \E shader \in Handles(shaders), count \in counts :
        \E string \in [1 .. Max(count, 0) -> Fragments],
           length \in {[null |-> TRUE, at |-> << >>]} \cup
                      {[null |-> FALSE, at |-> l] : l \in [1 .. count -> lengths]} :
            /\ Install(ShaderSource(Enter, shader, count, string, length))
            /\ lastCall' = [op |-> "ShaderSource", shader |-> shader,
                            compiledBefore |-> /\ IsShaderHandle(shader)
                                               /\ IsCompiled(Cur, mShadingObjectPool[shader].arrayIndex)]

DoReleaseShaderCompiler ==
    /\ Install(ReleaseShaderCompiler(Enter))
    /\ lastCall' = [op |-> "ReleaseShaderCompiler"]

DoGetShaderiv(shaders) ==
    \E shader \in Handles(shaders), pname \in Pnames :
        /\ Install(GetShaderiv(Enter, shader, pname))
        /\ lastCall' = [op |-> "GetShaderiv", shader |-> shader, pname |-> pname]

DoGetShaderInfoLog(shaders) ==
    \E shader \in Handles(shaders), bufsize \in Bufsizes, hasLength \in BOOLEAN :
        /\ Install(GetShaderInfoLog([Enter EXCEPT !.mem.hasLength = hasLength], shader, bufsize))
        /\ lastCall' = [op |-> "GetShaderInfoLog", shader |-> shader, bufsize |-> bufsize]

DoGetShaderSource(shaders) ==
    \E shader \in Handles(shaders), bufsize \in Bufsizes, hasLength \in BOOLEAN :
        /\ Install(GetShaderSource([Enter EXCEPT !.mem.hasLength = hasLength], shader, bufsize))
        /\ lastCall' = [op |-> "GetShaderSource", shader |-> shader, bufsize |-> bufsize]

DoGetShaderPrecisionFormat ==
    \E shadertype \in ShaderTypes, precisiontype \in PrecisionTypes, floatRange \in FloatRanges :
        /\ Install(GetShaderPrecisionFormat(Enter, shadertype, precisiontype, floatRange))
        /\ lastCall' = [op |-> "GetShaderPrecisionFormat", shadertype |-> shadertype,
                        precisiontype |-> precisiontype]

DoIsShader(shaders) ==
    \E shader \in Handles(shaders) :
        /\ Install(IsShader(Enter, shader))
        /\ lastCall' = [op |-> "IsShader", shader |-> shader]

DoCreateProgram ==
    /\ programCounter <= MaxPrograms
    /\ Install(CreateProgram(Enter))
    /\ lastCall' = [op |-> "CreateProgram"]

DoAttachShader ==
    \E program \in DOMAIN mShadingObjectPool, shader \in DOMAIN mShadingObjectPool :
        /\ IsProgramHandle(program)
        /\ IsShaderHandle(shader)
        /\ Install(AttachShader(Enter, program, shader))
        /\ lastCall' = [op |-> "AttachShader", program |-> program, shader |-> shader]

DoDetachShader ==
    \E program \in DOMAIN mShadingObjectPool, shader \in DOMAIN mShadingObjectPool :
        /\ IsProgramHandle(program)
        /\ IsShaderHandle(shader)
        /\ mShadingObjectPool[shader].arrayIndex
               \in shaderProgramArray[mShadingObjectPool[program].arrayIndex].attached
        /\ Install(DetachShader(Enter, program, shader))
        /\ lastCall' = [op |-> "DetachShader", program |-> program, shader |-> shader]

\* A draw call, which needs a program, leaves the write framebuffer in draw
\* state until the next flush.
DoDraw ==
    /\ ~inDrawState
    /\ DOMAIN shaderProgramArray # {}
    /\ Install([Enter EXCEPT !.inDrawState = TRUE])
    /\ lastCall' = [op |-> "Draw"]

\* The lifecycle of shaders, programs and the compiler.  What a shader's kind
\* and the text of its source are is left to the queries' specification.
Next ==
    \/ DoCreateShader({GL_VERTEX_SHADER, GL_OTHER}, MaxShaders)
    \/ DoDeleteShader(MaxShaders)
    \/ DoCompileShader(MaxShaders)
    \/ DoShaderSource(MaxShaders, {-1, MaxCount}, {})
    \/ DoReleaseShaderCompiler
    \/ DoCreateProgram
    \/ DoAttachShader
    \/ DoDetachShader
    \/ DoDraw

Spec == Init /\ [][Next]_vars

\* The queries, on the contexts that a shader and a program give.
NextQuery ==
    \/ DoCreateShader(ShaderTypes, MaxQueryShaders)
    \/ DoCreateProgram
    \/ DoDeleteShader(MaxQueryShaders)
    \/ DoShaderSource(MaxQueryShaders, (-1) .. MaxCount, FragmentLengths)
    \/ DoCompileShader(MaxQueryShaders)
    \/ DoGetShaderiv(MaxQueryShaders)
    \/ DoGetShaderInfoLog(MaxQueryShaders)
    \/ DoGetShaderSource(MaxQueryShaders)
    \/ DoGetShaderPrecisionFormat
    \/ DoIsShader(MaxQueryShaders)

SpecQuery == Init /\ [][NextQuery]_vars

\* ==================================================================== claims
AllHandles == Handles(MaxShaders)
Registered(h) == h \in DOMAIN mShadingObjectPool
Attached(ptr) == \E p \in DOMAIN shaderProgramArray : ptr \in shaderProgramArray[p].attached
\* The context a second call finds after a first one returned c.
Reenter(c) == [c EXCEPT !.recorded = << >>, !.mem = NoMem]
\* The context without the error slot and the per-call records.
ObjectState(c) ==
    [mShaderCompiler |-> c.mShaderCompiler, compilerCount |-> c.compilerCount,
     mShadingObjectPool |-> c.mShadingObjectPool, mShadingObjectCount |-> c.mShadingObjectCount,
     shaderArray |-> c.shaderArray, shaderCounter |-> c.shaderCounter,
     shaderProgramArray |-> c.shaderProgramArray, programCounter |-> c.programCounter,
     purgeList |-> c.purgeList, inDrawState |-> c.inDrawState]

\* C1: resolving a handle as a shader fails with InvalidValue when the handle is
\* zero, not below the allocated count or not registered, fails with
\* InvalidOperation when it is registered as a PROGRAM, and resolves (to an
\* allocated shader, recording nothing) only when it is registered as a SHADER.
C1_HandleResolution ==
    \A h \in AllHandles :
        LET r == GetShaderPtr(Enter, h)
        IN  /\ (h = 0 \/ h >= mShadingObjectCount \/ ~Registered(h))
                   => (r.ptr = NULL /\ r.ctx.recorded = << GL_INVALID_VALUE >>
                       /\ r.ctx.mError = GL_INVALID_VALUE)
            /\ (Registered(h) /\ mShadingObjectPool[h].type = SHADER_PROGRAM_ID)
                   => (r.ptr = NULL /\ r.ctx.recorded = << GL_INVALID_OPERATION >>
                       /\ r.ctx.mError = GL_INVALID_OPERATION)
            /\ r.ptr # NULL
                   => (/\ Registered(h)
                       /\ mShadingObjectPool[h].type = SHADER_ID
                       /\ r.ptr = mShadingObjectPool[h].arrayIndex
                       /\ r.ptr \in DOMAIN shaderArray
                       /\ r.ctx.recorded = << >>)
            /\ (Registered(h) /\ mShadingObjectPool[h].type = SHADER_ID) => r.ptr # NULL

\* A call was given a program's handle where a shader's is needed, beside a
\* shader's handle and a handle already erased.
C1_Witness ==
    /\ lastCall.op = "DeleteShader"
    /\ Registered(lastCall.shader)
    /\ mShadingObjectPool[lastCall.shader].type = SHADER_PROGRAM_ID
    /\ recorded = << GL_INVALID_OPERATION >>
    /\ \E h \in AllHandles : Registered(h) /\ mShadingObjectPool[h].type = SHADER_ID
    /\ \E h \in AllHandles : h # 0 /\ h < mShadingObjectCount /\ ~Registered(h)

\* C2: a shader's storage is released, and its namespace entry erased, only when
\* the shader is marked for deletion and no program holds it attached; a call of
\* DeleteShader never deallocates a shader that a program holds attached.
C2_ReleaseOnlyWhenFree ==
    [][/\ \A s \in DOMAIN shaderArray :
              s \notin DOMAIN shaderArray'
                  => /\ mem'.freed = << [shader |-> s, markForDeletion |-> TRUE,
                                         attached |-> FALSE] >>
                     /\ ~Attached(s)'
       /\ \A h \in DOMAIN mShadingObjectPool :
              h \notin DOMAIN mShadingObjectPool'
                  => /\ mShadingObjectPool[h].type = SHADER_ID
                     /\ mem'.freed = << [shader |-> mShadingObjectPool[h].arrayIndex,
                                         markForDeletion |-> TRUE, attached |-> FALSE] >>
       /\ lastCall'.op = "DeleteShader"
              => \A s \in DOMAIN shaderArray : Attached(s) => s \in DOMAIN shaderArray'
      ]_vars

\* DeleteShader freed one shader while another one stays attached to a program.
C2_Witness ==
    /\ lastCall.op = "DeleteShader"
    /\ Len(mem.freed) = 1
    /\ \E s \in DOMAIN shaderArray : Attached(s)

\* C3: DeleteShader on a shader that a program holds attached marks it and puts
\* it in the purge list, leaving its namespace entry and its storage; and as long
\* as a shader waits in the purge list its handle resolves as a SHADER and
\* GetShaderiv(GL_DELETE_STATUS) reports GL_TRUE.
C3_DeferredDeletion ==
    [][/\ \A h \in DOMAIN mShadingObjectPool :
              (/\ lastCall'.op = "DeleteShader"
               /\ lastCall'.shader = h
               /\ mShadingObjectPool[h].type = SHADER_ID
               /\ Attached(mShadingObjectPool[h].arrayIndex))
                  => /\ h \in DOMAIN mShadingObjectPool'
                     /\ mShadingObjectPool'[h] = mShadingObjectPool[h]
                     /\ mShadingObjectPool[h].arrayIndex \in DOMAIN shaderArray'
                     /\ shaderArray'[mShadingObjectPool[h].arrayIndex].markForDeletion
                     /\ mShadingObjectPool[h].arrayIndex \in purgeList'
                     /\ mem'.freed = << >>
       /\ \A s \in purgeList' :
              \E h \in AllHandles :
                  /\ GetShaderPtr(Enter', h).ptr = s
                  /\ GetShaderiv(Enter', h, GL_DELETE_STATUS).mem.params = Some(GL_TRUE)
      ]_vars

\* DeleteShader deferred the deletion of an attached shader.
C3_Witness ==
    /\ lastCall.op = "DeleteShader"
    /\ Registered(lastCall.shader)
    /\ mShadingObjectPool[lastCall.shader].type = SHADER_ID
    /\ Attached(mShadingObjectPool[lastCall.shader].arrayIndex)
    /\ mShadingObjectPool[lastCall.shader].arrayIndex \in purgeList
    /\ recorded = << >>

\* C4 as stated: DeleteShader(h) twice leaves the same namespace, shaders, purge
\* list and last-error slot as DeleteShader(h) once.
C4_IdempotentWithError ==
    \A h \in AllHandles :
        LET c1 == DeleteShader(Enter, h)
            c2 == DeleteShader(Reenter(c1), h)
        IN  /\ c2.mShadingObjectPool = c1.mShadingObjectPool
            /\ c2.shaderArray = c1.shaderArray
            /\ c2.purgeList = c1.purgeList
            /\ c2.mError = c1.mError

\* C4, amended: DeleteShader(h) twice leaves the same objects (namespace, shaders,
\* programs, purge list, compiler) as DeleteShader(h) once; the error slot is the
\* same too unless the first call freed the shader, and then the second call
\* records InvalidValue for the handle that no longer resolves.
C4_Idempotent ==
    \A h \in AllHandles :
        LET c1 == DeleteShader(Enter, h)
            c2 == DeleteShader(Reenter(c1), h)
        IN  /\ ObjectState(c2) = ObjectState(c1)
            /\ IF c1.mem.freed # << >>
               THEN c2.recorded = << GL_INVALID_VALUE >>
               ELSE c2.recorded = c1.recorded /\ c2.mError = c1.mError

\* DeleteShader was called again on the handle of a shader already freed.
C4_Witness ==
    /\ lastCall.op = "DeleteShader"
    /\ lastCall.shader # 0
    /\ lastCall.shader < mShadingObjectCount
    /\ ~Registered(lastCall.shader)
    /\ mem.freed = << >>
    /\ recorded = << GL_INVALID_VALUE >>
    /\ purgeList # {}

\* ------------------------------------------------------- the string queries
StringQuery == lastCall.op \in {"GetShaderInfoLog", "GetShaderSource"}
\* The string the last query asked for, when its handle resolves.
QueriedString ==
    LET sh == shaderArray[mShadingObjectPool[lastCall.shader].arrayIndex]
    IN  IF lastCall.op = "GetShaderInfoLog" THEN sh.infoLog ELSE sh.source
QueryOnString ==
    /\ StringQuery
    /\ lastCall.bufsize >= 0
    /\ IsShaderHandle(lastCall.shader)
    /\ QueriedString # NoString
QueryOnNoString ==
    /\ StringQuery
    /\ lastCall.bufsize >= 0
    /\ IsShaderHandle(lastCall.shader)
    /\ QueriedString = NoString

\* C5: GetShaderInfoLog and GetShaderSource, for a bufsize >= 0 and an existing
\* string, write no byte at or beyond offset bufsize, and the bytes written end
\* with the terminator.
C5_BufferSafety ==
    QueryOnString
        => /\ \A i \in DOMAIN mem.buffer : i < lastCall.bufsize
           /\ \E last \in DOMAIN mem.buffer :
                  /\ \A i \in DOMAIN mem.buffer : i <= last
                  /\ mem.buffer[last] = NUL

\* C6: for a bufsize >= 0 and an existing string of terminated length len, the
\* length reported is max(min(bufsize, len) - 1, 0), the destination holds that
\* many leading bytes of the string and the terminator right after them, and
\* nothing else is written; a negative bufsize records InvalidValue alone, before
\* the handle is looked at, and writes nothing.
C6_ReturnedLength ==
    /\ (StringQuery /\ lastCall.bufsize < 0)
           => /\ recorded = << GL_INVALID_VALUE >>
              /\ DOMAIN mem.buffer = {}
              /\ mem.length = Unwritten
    /\ QueryOnString
           => LET str == QueriedString[1]
                  len == Len(str) + 1
                  least == IF lastCall.bufsize < len THEN lastCall.bufsize ELSE len
                  returnedLen == IF least - 1 > 0 THEN least - 1 ELSE 0
              IN  /\ mem.hasLength => mem.length = Some(returnedLen)
                  /\ DOMAIN mem.buffer = 0 .. returnedLen
                  /\ \A i \in 0 .. (returnedLen - 1) : mem.buffer[i] = str[i + 1]
                  /\ mem.buffer[returnedLen] = NUL
                  /\ recorded = << >>

\* GetShaderSource cut a source of two characters to a buffer of two bytes.
C6_Witness ==
    /\ QueryOnString
    /\ lastCall.op = "GetShaderSource"
    /\ Len(QueriedString[1]) = 2
    /\ lastCall.bufsize = 2
    /\ mem.length = Some(1)

\* C7: GetShaderInfoLog and GetShaderSource on a shader that has no such string
\* write nothing to the destination and, given a length output, set it to 0.
C7_NoStringLengthZero ==
    QueryOnNoString
        => /\ DOMAIN mem.buffer = {}
           /\ mem.hasLength => mem.length = Some(0)

\* ------------------------------------------------------------ the compiler
CompileStatus(h) == GetShaderiv(Enter, h, GL_COMPILE_STATUS).mem.params

\* GetShaderiv(GL_COMPILE_STATUS) on a shader's handle reports the shader's
\* compile flag.
ReportsCompileFlag ==
    \A h \in DOMAIN mShadingObjectPool :
        mShadingObjectPool[h].type = SHADER_ID
            => CompileStatus(h) =
                   Some(IF shaderArray[mShadingObjectPool[h].arrayIndex].compiled
                        THEN GL_TRUE ELSE GL_FALSE)

\* C8: once ShaderSource succeeded on a shader, GetShaderiv(GL_COMPILE_STATUS)
\* reports GL_FALSE for it, whether or not it was compiled before, and the report
\* turns from GL_FALSE to GL_TRUE only in a CompileShader of that very shader
\* that ran the compiler.  (The report is the compile flag in every state; the
\* steps are stated on the flag.)
C8_SourceResetsCompileStatus ==
    /\ []ReportsCompileFlag
    /\ [][/\ (lastCall'.op = "ShaderSource" /\ recorded' = << >>)
                  => /\ lastCall'.shader \in DOMAIN mShadingObjectPool'
                     /\ mShadingObjectPool'[lastCall'.shader].type = SHADER_ID
                     /\ ~shaderArray'[mShadingObjectPool'[lastCall'.shader].arrayIndex].compiled
           /\ \A s \in (DOMAIN shaderArray) \cap (DOMAIN shaderArray') :
                  (~shaderArray[s].compiled /\ shaderArray'[s].compiled)
                      => /\ lastCall'.op = "CompileShader"
                         /\ lastCall'.shader \in DOMAIN mShadingObjectPool
                         /\ mShadingObjectPool[lastCall'.shader] =
                                [type |-> SHADER_ID, arrayIndex |-> s]
                         /\ recorded' = << >>
                         /\ mem'.usedCompiler # NULL
          ]_vars

\* ShaderSource succeeded on a shader that was compiled.
C8_Witness ==
    /\ lastCall.op = "ShaderSource"
    /\ recorded = << >>
    /\ lastCall.compiledBefore
    /\ CompileStatus(lastCall.shader) = Some(GL_FALSE)

\* C9: the call in which a new compiler instance is constructed leaves every
\* shader (those of the purge list included) and every program of the resource
\* store referring to the new instance; the compile that triggered it, and any
\* compile asked for next on a shader with a source, runs on the new instance.
C9_RebindCompleteness ==
    [][(mShaderCompiler' # NULL /\ mShaderCompiler' # mShaderCompiler)
          => /\ \A s \in DOMAIN shaderArray' : shaderArray'[s].compiler = mShaderCompiler'
             /\ \A p \in DOMAIN shaderProgramArray' :
                    shaderProgramArray'[p].compiler = mShaderCompiler'
             /\ purgeList' \subseteq DOMAIN shaderArray'
             /\ mem'.usedCompiler = mShaderCompiler'
             /\ \A h \in AllHandles, result \in CompileResults :
                    (IsShaderHandle(h)' /\ HasSource(Cur', mShadingObjectPool'[h].arrayIndex))
                        => CompileShader(Enter', h, result).mem.usedCompiler = mShaderCompiler'
      ]_vars

\* The first compiler was constructed when two shaders, one of them in the purge
\* list, and a program were there already.
C9_Witness ==
    /\ lastCall.op = "CompileShader"
    /\ mem.constructed = 1
    /\ Cardinality(DOMAIN shaderArray) = 2
    /\ DOMAIN shaderProgramArray # {}
    /\ purgeList # {}

\* C10 as stated: every shader and every program refers to mShaderCompiler.
C10_AllReferToCurrent ==
    /\ \A s \in DOMAIN shaderArray : shaderArray[s].compiler = mShaderCompiler
    /\ \A p \in DOMAIN shaderProgramArray : shaderProgramArray[p].compiler = mShaderCompiler

\* C10, amended: while a compiler instance exists, every shader and every
\* program refers to it.
C10_AllReferToLiveCompiler ==
    mShaderCompiler # NULL
        => /\ \A s \in DOMAIN shaderArray : shaderArray[s].compiler = mShaderCompiler
           /\ \A p \in DOMAIN shaderProgramArray :
                  shaderProgramArray[p].compiler = mShaderCompiler

\* A second compiler instance exists, after the first was released, with two
\* shaders and a program.
C10_Witness ==
    /\ mShaderCompiler = 2
    /\ Cardinality(DOMAIN shaderArray) = 2
    /\ DOMAIN shaderProgramArray # {}

\* ------------------------------------------------------- failures and gates
GatedCall ==
    lastCall.op \in {"CompileShader", "ShaderSource", "GetShaderiv",
                     "GetShaderPrecisionFormat", "ReleaseShaderCompiler"}

\* C11: when the context has no compiler support, a call of CompileShader,
\* ShaderSource, GetShaderiv, GetShaderPrecisionFormat or ReleaseShaderCompiler
\* records InvalidOperation, and nothing else, and writes none of its outputs.
C11_AvailabilityGate ==
    (~compilerSupport /\ GatedCall)
        => /\ recorded = << GL_INVALID_OPERATION >>
           /\ mem.params = Unwritten
           /\ mem.range = Unwritten
           /\ mem.precision = Unwritten
           /\ mem.usedCompiler = NULL
           /\ mem.constructed = NULL

\* The call returned c: it recorded an error, and left the objects, the purge
\* list and the compiler as they were and the caller's outputs unwritten.
FailedWithoutEffect(c) ==
    /\ c.recorded # << >>
    /\ ObjectState(c) = ObjectState(Cur)
    /\ c.compilerSupport = compilerSupport
    /\ c.mem.params = Unwritten
    /\ c.mem.length = Unwritten
    /\ c.mem.buffer = << >>
    /\ c.mem.freed = << >>
    /\ c.mem.constructed = NULL
    /\ c.mem.usedCompiler = NULL

NoFragments == [null |-> TRUE, at |-> << >>]

\* C12: a call with a failing input (a handle that is not a shader's: zero,
\* unallocated, erased or a program's; a negative bufsize; a negative count; an
\* unrecognised enumerant) changes nothing but the error slot: the namespace,
\* every shader, every program, the purge list and the compiler stay as they
\* were.  (DeleteShader(0) changes nothing either, and records nothing.)
C12_StateUnchangedOnFailure ==
    /\ \A type \in ShaderTypes \ {GL_VERTEX_SHADER, GL_FRAGMENT_SHADER} :
           LET c == CreateShader(Enter, type)
           IN  FailedWithoutEffect(c) /\ c.mem.ret = Some(0)
    /\ \A h \in AllHandles :
           /\ ~IsShaderHandle(h)
                  => /\ h # 0 => FailedWithoutEffect(DeleteShader(Enter, h))
                     /\ \A result \in CompileResults :
                            FailedWithoutEffect(CompileShader(Enter, h, result))
                     /\ FailedWithoutEffect(ShaderSource(Enter, h, MaxCount,
                                                         [i \in 1 .. MaxCount |-> << "a", "b" >>],
                                                         NoFragments))
                     /\ \A pname \in Pnames : FailedWithoutEffect(GetShaderiv(Enter, h, pname))
                     /\ \A bufsize \in Bufsizes, hasLength \in BOOLEAN :
                            LET c == [Enter EXCEPT !.mem.hasLength = hasLength]
                            IN  /\ FailedWithoutEffect(GetShaderInfoLog(c, h, bufsize))
                                /\ FailedWithoutEffect(GetShaderSource(c, h, bufsize))
           /\ \A hasLength \in BOOLEAN :
                  LET c == [Enter EXCEPT !.mem.hasLength = hasLength]
                  IN  /\ FailedWithoutEffect(GetShaderInfoLog(c, h, -1))
                      /\ FailedWithoutEffect(GetShaderSource(c, h, -1))
           /\ FailedWithoutEffect(ShaderSource(Enter, h, -1, << >>, NoFragments))
           /\ FailedWithoutEffect(GetShaderiv(Enter, h, GL_OTHER))

\* ShaderSource was refused, for its negative count, on a compiled shader, with
\* a shader waiting in the purge list.
C12_Witness ==
    /\ lastCall.op = "ShaderSource"
    /\ IsShaderHandle(lastCall.shader)
    /\ recorded = << GL_INVALID_VALUE >>
    /\ shaderArray[mShadingObjectPool[lastCall.shader].arrayIndex].compiled
    /\ purgeList # {}

\* ------------------------------------------------------------ createShader
QueryHandles == Handles(MaxQueryShaders)

\* C13: CreateShader with a type that is neither GL_VERTEX_SHADER nor
\* GL_FRAGMENT_SHADER records InvalidEnum, returns 0 and allocates nothing; with
\* one of the two it returns a new non-zero handle, registered as a SHADER, that
\* resolves to a freshly allocated shader, and GetShaderiv(GL_SHADER_TYPE) on the
\* handle answers the type of the creation, in that state and after every later
\* step in which the handle still resolves.
C13_CreateShader ==
    [][/\ lastCall'.op = "CreateShader"
              => IF lastCall'.type \notin {GL_VERTEX_SHADER, GL_FRAGMENT_SHADER}
                 THEN /\ recorded' = << GL_INVALID_ENUM >>
                      /\ mem'.ret = Some(0)
                      /\ ObjectState(Cur') = ObjectState(Cur)
                 ELSE LET h == mem'.ret[1]
                      IN  /\ recorded' = << >>
                          /\ h # 0
                          /\ h \notin DOMAIN mShadingObjectPool
                          /\ DOMAIN mShadingObjectPool' = DOMAIN mShadingObjectPool \cup {h}
                          /\ mShadingObjectPool'[h].type = SHADER_ID
                          /\ mShadingObjectPool'[h].arrayIndex \notin DOMAIN shaderArray
                          /\ GetShaderPtr(Enter', h).ptr = mShadingObjectPool'[h].arrayIndex
                          /\ shaderArray'[mShadingObjectPool'[h].arrayIndex] =
                                 [NewShader EXCEPT
                                      !.type = IF lastCall'.type = GL_VERTEX_SHADER
                                               THEN SHADER_TYPE_VERTEX
                                               ELSE SHADER_TYPE_FRAGMENT,
                                      !.compiler = mShaderCompiler]
                          /\ GetShaderiv(Enter', h, GL_SHADER_TYPE).mem.params
                                 = Some(lastCall'.type)
       /\ \A h \in QueryHandles :
              (GetShaderPtr(Enter, h).ptr # NULL /\ GetShaderPtr(Enter', h).ptr # NULL)
                  => GetShaderiv(Enter', h, GL_SHADER_TYPE).mem.params
                         = GetShaderiv(Enter, h, GL_SHADER_TYPE).mem.params
      ]_vars

\* A fragment shader still answers GL_FRAGMENT_SHADER after it was given a
\* source and compiled.
C13_Witness ==
    /\ lastCall.op = "CompileShader"
    /\ recorded = << >>
    /\ mem.usedCompiler # NULL
    /\ GetShaderiv(Enter, lastCall.shader, GL_SHADER_TYPE).mem.params = Some(GL_FRAGMENT_SHADER)

\* ------------------------------------------------------------ deleteShader
\* C14: DeleteShader(0) records nothing and changes nothing, the error slot
\* included; DeleteShader on a non-zero handle that does not resolve changes no
\* object (namespace, shaders, programs, purge list, compiler) and records an
\* error.
C14_DeleteZeroSilent ==
    /\ DeleteShader(Enter, 0) = Enter
    /\ \A h \in AllHandles \ {0} :
           GetShaderPtr(Enter, h).ptr = NULL
               => LET c == DeleteShader(Enter, h)
                  IN  /\ ObjectState(c) = ObjectState(Cur)
                      /\ c.mem.freed = << >>
                      /\ Len(c.recorded) = 1
                      /\ c.mError = c.recorded[1]
                      /\ c.mError \in {GL_INVALID_VALUE, GL_INVALID_OPERATION}

\* DeleteShader(0) was called while the error slot held an earlier error and a
\* shader waited in the purge list.
C14_Witness ==
    /\ lastCall.op = "DeleteShader"
    /\ lastCall.shader = 0
    /\ recorded = << >>
    /\ mError # GL_NO_ERROR
    /\ purgeList # {}

\* The shaders that c holds marked for deletion.
Marked(c) == {s \in DOMAIN c.shaderArray : c.shaderArray[s].markForDeletion}

\* GetShaderiv(GL_DELETE_STATUS) on a shader's handle reports the shader's mark.
ReportsDeletionMark ==
    \A h \in DOMAIN mShadingObjectPool :
        mShadingObjectPool[h].type = SHADER_ID
            => GetShaderiv(Enter, h, GL_DELETE_STATUS).mem.params =
                   Some(IF shaderArray[mShadingObjectPool[h].arrayIndex].markForDeletion
                        THEN GL_TRUE ELSE GL_FALSE)

\* No query resets a mark.
QueriesKeepMarks ==
    Marked(Cur) # {}
        => \A h \in AllHandles :
               /\ \A pname \in Pnames : Marked(Cur) \subseteq Marked(GetShaderiv(Enter, h, pname))
               /\ \A bufsize \in Bufsizes :
                      /\ Marked(Cur) \subseteq Marked(GetShaderInfoLog(Enter, h, bufsize))
                      /\ Marked(Cur) \subseteq Marked(GetShaderSource(Enter, h, bufsize))
               /\ Marked(Cur) \subseteq Marked(IsShader(Enter, h))

\* C15: the deletion mark is monotonic: GetShaderiv(GL_DELETE_STATUS) reports
\* the mark, no query changes it, and no step (CreateShader, ShaderSource,
\* CompileShader with the creation of the compiler, DeleteShader,
\* ReleaseShaderCompiler, the program calls) resets the mark of a shader that
\* exists before and after the step.
C15_MarkMonotonic ==
    /\ [](ReportsDeletionMark /\ QueriesKeepMarks)
    /\ [][\A s \in (DOMAIN shaderArray) \cap (DOMAIN shaderArray') :
              shaderArray[s].markForDeletion => shaderArray'[s].markForDeletion]_vars

\* ShaderSource succeeded on a compiled shader that is marked for deletion, and
\* the shader is still marked.
C15_Witness ==
    /\ lastCall.op = "ShaderSource"
    /\ recorded = << >>
    /\ lastCall.compiledBefore
    /\ shaderArray[mShadingObjectPool[lastCall.shader].arrayIndex].markForDeletion
    /\ GetShaderiv(Enter, lastCall.shader, GL_DELETE_STATUS).mem.params = Some(GL_TRUE)

Unmark(c, s) == [c EXCEPT !.shaderArray[s].markForDeletion = FALSE, !.purgeList = @ \ {s}]
Mark(c, s) == [c EXCEPT !.shaderArray[s].markForDeletion = TRUE, !.purgeList = @ \cup {s}]

\* C17: on the handle of a shader that waits in the purge list, ShaderSource,
\* CompileShader, GetShaderiv, GetShaderInfoLog and GetShaderSource do what they
\* do on the same shader without the mark: the same errors, the same outputs and
\* the same effect on the context; only GetShaderiv(GL_DELETE_STATUS) tells the
\* two apart.
C17_MarkedShaderOperable ==
    \A h \in AllHandles :
        (IsShaderHandle(h) /\ mShadingObjectPool[h].arrayIndex \in purgeList)
            => LET s == mShadingObjectPool[h].arrayIndex
                   plain == Unmark(Enter, s)
               IN  /\ \A count \in {-1, MaxCount} :
                          LET string == [i \in 1 .. Max(count, 0) |-> << "a", "b" >>]
                          IN  ShaderSource(Enter, h, count, string, NoFragments)
                                  = Mark(ShaderSource(plain, h, count, string, NoFragments), s)
                   /\ \A result \in CompileResults :
                          CompileShader(Enter, h, result) = Mark(CompileShader(plain, h, result), s)
                   /\ \A pname \in Pnames \ {GL_DELETE_STATUS} :
                          GetShaderiv(Enter, h, pname) = Mark(GetShaderiv(plain, h, pname), s)
                   /\ GetShaderiv(Enter, h, GL_DELETE_STATUS)
                          = [Mark(GetShaderiv(plain, h, GL_DELETE_STATUS), s)
                                EXCEPT !.mem.params = Some(GL_TRUE)]
                   /\ \A bufsize \in Bufsizes, hasLength \in BOOLEAN :
                          LET c == [Enter EXCEPT !.mem.hasLength = hasLength]
                              p == [plain EXCEPT !.mem.hasLength = hasLength]
                          IN  /\ GetShaderInfoLog(c, h, bufsize)
                                     = Mark(GetShaderInfoLog(p, h, bufsize), s)
                              /\ GetShaderSource(c, h, bufsize)
                                     = Mark(GetShaderSource(p, h, bufsize), s)
                   /\ GetShaderPtr(Enter, h).ptr = s

\* A shader that waits in the purge list was compiled, and the compiler failed.
C17_Witness ==
    /\ lastCall.op = "CompileShader"
    /\ IsShaderHandle(lastCall.shader)
    /\ mShadingObjectPool[lastCall.shader].arrayIndex \in purgeList
    /\ mem.usedCompiler # NULL
    /\ shaderArray[mShadingObjectPool[lastCall.shader].arrayIndex].infoLog # NoString

\* ---------------------------------------------------------- compileShader
\* C18: CompileShader without compiler support, on a handle that does not
\* resolve to a shader or on a shader without a source changes no shader (flag,
\* log, source), constructs no compiler and runs none; and the call in which a
\* compiler was constructed is a CompileShader on a shader that has a source.
C18_CompileNoOp ==
    /\ \A h \in AllHandles, result \in CompileResults :
           LET ptr == GetShaderPtr(Enter, h).ptr
               c == CompileShader(Enter, h, result)
           IN  (~compilerSupport \/ ptr = NULL \/ ~HasSource(Cur, ptr))
                   => /\ ObjectState(c) = ObjectState(Cur)
                      /\ c.mem.constructed = NULL
                      /\ c.mem.usedCompiler = NULL
    /\ mem.constructed # NULL
           => /\ lastCall.op = "CompileShader"
              /\ compilerSupport
              /\ IsShaderHandle(lastCall.shader)
              /\ HasSource(Cur, mShadingObjectPool[lastCall.shader].arrayIndex)

\* CompileShader was called, with compiler support and no compiler yet, on a
\* shader without a source while another shader has one: no compiler was made.
C18_Witness ==
    /\ lastCall.op = "CompileShader"
    /\ compilerSupport
    /\ IsShaderHandle(lastCall.shader)
    /\ ~HasSource(Cur, mShadingObjectPool[lastCall.shader].arrayIndex)
    /\ recorded = << >>
    /\ mShaderCompiler = NULL
    /\ compilerCount = 0
    /\ \E s \in DOMAIN shaderArray : shaderArray[s].source # NoString

\* C19: a CompileShader that reaches the compile step (compiler support, a
\* handle that resolves to a shader, a source) runs it on the compiler the
\* shader refers to, and that is the context's compiler, which exists: never a
\* null reference kept from CreateShader, never an instance that
\* ReleaseShaderCompiler destroyed.
C19_CompileOnCurrentCompiler ==
    (/\ lastCall.op = "CompileShader"
     /\ compilerSupport
     /\ IsShaderHandle(lastCall.shader)
     /\ HasSource(Cur, mShadingObjectPool[lastCall.shader].arrayIndex))
        => /\ mShaderCompiler # NULL
           /\ mShaderCompiler <= compilerCount
           /\ mem.usedCompiler = mShaderCompiler
           /\ shaderArray[mShadingObjectPool[lastCall.shader].arrayIndex].compiler
                  = mShaderCompiler
           /\ mem.constructed \in {NULL, mShaderCompiler}

\* A compile, asked for after the first compiler was released, constructed the
\* second instance and ran on it.
C19_Witness ==
    /\ lastCall.op = "CompileShader"
    /\ mem.constructed = 2
    /\ mem.usedCompiler = 2

\* -------------------------------------------------------------- purge list
\* C20: every shader of the purge list is marked for deletion, is in the shader
\* store and has its namespace entry; every SHADER entry of the namespace leads
\* to a shader of the store; and a shader that the last call deallocated is
\* neither in the purge list nor behind a namespace entry.
C20_PurgeListConsistent ==
    /\ \A s \in purgeList :
           /\ s \in DOMAIN shaderArray
           /\ shaderArray[s].markForDeletion
           /\ \E h \in DOMAIN mShadingObjectPool :
                  mShadingObjectPool[h] = [type |-> SHADER_ID, arrayIndex |-> s]
    /\ \A h \in DOMAIN mShadingObjectPool :
           mShadingObjectPool[h].type = SHADER_ID
               => mShadingObjectPool[h].arrayIndex \in DOMAIN shaderArray
    /\ \A i \in DOMAIN mem.freed :
           /\ mem.freed[i].shader \notin purgeList
           /\ mem.freed[i].shader \notin DOMAIN shaderArray
           /\ \A h \in DOMAIN mShadingObjectPool :
                  mShadingObjectPool[h] # [type |-> SHADER_ID, arrayIndex |-> mem.freed[i].shader]

\* DeleteShader deallocated one shader while another one waits in the purge list.
C20_Witness ==
    /\ lastCall.op = "DeleteShader"
    /\ Len(mem.freed) = 1
    /\ purgeList # {}
    /\ recorded = << >>
====
